---- MODULE Spec2Model ----
(***************************************************************************)
(* Atmospheric ballistic trajectory engine of the Relativity repository    *)
(* (src/Python/motion_lib.py, src/Python/ballistics_lib.py) and the        *)
(* precision guard of src/Python/relativity_lib.py.                        *)
(*                                                                         *)
(* The specifications share the variables below:                           *)
(*   SolverSpec    the angle solver                                        *)
(*                 ballistic_trajectory_with_drag_opt_angle                *)
(*   SolverFairSpec  the angle solver, its call running on until it        *)
(*                 returns                                                 *)
(*   DragSpec      successive evaluations of drag_coefficient_sphere       *)
(*   ShapeSpec     successive evaluations of drag_coefficient_shape        *)
(*   DerivSpec     evaluations of equations_of_motion inside one call of   *)
(*                 projectile_distance2/3                                  *)
(*   TrajSpec      one integrator call (projectile_distance1/2/3,          *)
(*                 ballistic_trajectory_with_drag, simulate_trajectory)    *)
(*   TrajPairSpec  two calls of one integrator, the caller keeping what    *)
(*                 the first returned                                      *)
(*   TrajSessionSpec  up to three calls of one integrator: a call, a call  *)
(*                 one argument apart, the first call again                *)
(*   AtmosSpec     successive evaluations of the atmosphere functions      *)
(*   MpSpec        configure, ensure and changes of mp.dps                 *)
(*                                                                         *)
(* Fixed-point conventions.  Floating-point quantities are integers in a   *)
(* stated unit:                                                            *)
(*   launch angle (solver)  1 unit = 75/(29 * 2^16) degree, so that the    *)
(*                          30 grid angles are multiples of 2^16 and the   *)
(*                          16 bisection midpoints are exact               *)
(*   final position, target 1 unit = 1/UnitsPerMetre m                     *)
(***************************************************************************)
EXTENDS Integers, Sequences, FiniteSets

VARIABLES
    \* ---- angle solver (motion_lib.py 277-389)
    pc,            \* position in ballistic_trajectory_with_drag_opt_angle
    distance,      \* argument distance
    launch_angle,  \* argument launch_angle_deg: << >> is None, <<a>> is a
    curve,         \* the launch parameters, as the range-versus-angle curve they fix
    x_vals,        \* x_vals, final position of each grid angle
    angle_low,     \* bracket, low end
    angle_high,    \* bracket, high end
    iter,          \* bisection iterations done
    ret,           \* the returned tuple
    path,          \* which return statement produced ret
    sims,          \* simulate_trajectory calls made, by phase
    \* ---- drag model (ballistics_lib.py 180-217)
    evals,         \* the last evaluations, two at most, of
                   \* drag_coefficient_sphere, of drag_coefficient_shape, of
                   \* the atmosphere functions or of equations_of_motion,
                   \* oldest first
    \* ---- one integrator call (ballistics_lib.py 295-710, motion_lib.py 199-344)
    call,          \* the function called and its arguments
    tpc,           \* position in the call
    sol,           \* the solve_ivp solution: t, y, t_events, status
    result,        \* what the call returned or raised
    work,          \* derivative evaluations and solve_ivp calls made
    prev,          \* result and outcome of the call before this one
    rounding,      \* the residual the root finder leaves: a fixed property of
                   \* the floating-point arithmetic the calls run on
    \* ---- precision of relativity_lib (relativity_lib.py 11-53)
    configured_dp, \* module global configured_dp
    mp_dps,        \* mp.dps, the working precision of mpmath
    conversions,   \* conversions mp.mpf(v) that ensure has made
    mp_op          \* the last operation and how it ended

solverVars == <<pc, distance, launch_angle, curve, x_vals, angle_low, angle_high,
                iter, ret, path, sims>>

dragVars == <<evals>>

trajVars == <<call, tpc, sol, result, work, prev, rounding>>

mpVars == <<configured_dp, mp_dps, conversions, mp_op>>

vars == <<solverVars, dragVars, trajVars, mpVars>>

\* relativity_lib as its import leaves it (line 624: configure(50)), unused
MpIdle ==
    /\ configured_dp = 50
    /\ mp_dps = 50
    /\ conversions = 0
    /\ mp_op = [op |-> "import"]

\* no evaluation of the drag model is recorded
DragIdle == evals = << >>

NoSol ==
    [ t |-> << >>, y |-> << >>, t_events |-> [ground |-> << >>, target |-> << >>],
      status |-> 2, t_bound |-> 0 ]

NoWork == [ deriv_evals |-> 0, solver_calls |-> 0 ]

\* no integrator call is in progress
TrajIdle ==
    /\ call = << >>
    /\ tpc = "idle"
    /\ sol = NoSol
    /\ result = << >>
    /\ work = NoWork
    /\ prev = << >>
    /\ rounding = 0

Abs(n) == IF n < 0 THEN -n ELSE n

Min2(a, b) == IF a <= b THEN a ELSE b

Max2(a, b) == IF a >= b THEN a ELSE b

-----------------------------------------------------------------------------
(***************************************************************************)
(* Angle solver: constants of the source.                                  *)
(***************************************************************************)

NumSamples == 30

BisectIters == 16

Unreachable == -1

\* position units per metre; the convergence tolerance 1.0 m is UnitsPerMetre units
UnitsPerMetre == 4

\* angle units between two adjacent grid angles
SubSteps == 2 ^ BisectIters

\* np.linspace(0, 75, 30)[i], i counted from 0
angle_samples(i) == i * SubSteps

MaxAngle == angle_samples(NumSamples - 1)

-----------------------------------------------------------------------------
(***************************************************************************)
(* The launch parameters other than the angle (initial_speed, obj_mass,    *)
(* obj_area_m2, obj_drag_coefficient, initial_height) enter the solver     *)
(* only through simulate_trajectory, a pure function of the angle.  They   *)
(* are represented by the range-versus-angle curve they fix: a value at    *)
(* each grid angle (rising from base at 0 degrees to top at grid angle     *)
(* peak, then falling to tail at 75 degrees) and a shape between adjacent  *)
(* grid angles (linear, a step, or a dip below both neighbours).           *)
(***************************************************************************)

\* largest final position of the curves drawn, in position units
MaxRange == 4000

\* final position at 0 degrees of the curves launched from a height
BaseX == 80

\* grid index of the longest range of the curves that fall again before 75 degrees
PeakIndex == 17

\* depth of the dip of the curves that are not monotonic between grid angles
DipDepth == 40

Shapes == {"linear", "step", "dip"}

Curves ==
    { c \in [base : {0, BaseX}, peak : {PeakIndex, NumSamples - 1},
             top : {BaseX, MaxRange}, tail : {0, MaxRange \div 2},
             shape : Shapes, jump : {1, SubSteps \div 3}] :
        /\ c.base <= c.top
        /\ c.tail <= c.top
        /\ (c.shape # "step" => c.jump = 1)
        /\ (c.peak = NumSamples - 1 => c.tail = 0) }

Distances ==
    { -(2 * UnitsPerMetre), 0, BaseX, BaseX + 1, MaxRange \div 3,
      (MaxRange \div 2) + 1, MaxRange, MaxRange + 1 }

GivenAngles == { angle_samples(0), angle_samples(PeakIndex) + 1, MaxAngle }

\* final position at grid angle i
Knot(c, i) ==
    IF i <= c.peak
    THEN c.base + ((c.top - c.base) * i) \div c.peak
    ELSE c.top - ((c.top - c.tail) * (i - c.peak)) \div ((NumSamples - 1) - c.peak)

\* final position at r angle units above grid angle i, 0 <= r < SubSteps
InCell(c, i, r) ==
    LET lo == Knot(c, i)
        hi == Knot(c, i + 1)
        lin == lo + ((hi - lo) * r) \div SubSteps
    IN  CASE c.shape = "linear" -> lin
          [] c.shape = "step" -> IF r < c.jump THEN lo ELSE hi
          [] c.shape = "dip" ->
                IF r >= SubSteps \div 4 /\ r < 3 * (SubSteps \div 4)
                THEN Min2(lo, hi) - DipDepth
                ELSE lin

final_x_at(c, a) ==
    IF a >= MaxAngle THEN Knot(c, NumSamples - 1)
    ELSE InCell(c, a \div SubSteps, a % SubSteps)

\* simulate_trajectory(angle_deg): (max_altitude, total_time, impact_velocity, final_x).
\* The first three are the values of the trajectory launched at a, named by a.
simulate_trajectory(a) ==
    [ max_altitude |-> <<"max_altitude", a>>,
      total_time |-> <<"total_time", a>>,
      impact_velocity |-> <<"impact_velocity", a>>,
      final_x |-> final_x_at(curve, a) ]

GridIndex == 0 .. (NumSamples - 1)

\* results = [simulate_trajectory(a) for a in angle_samples]
results == [ i \in GridIndex |-> simulate_trajectory(angle_samples(i)) ]

\* max(x_vals)
max_of(xs) == CHOOSE m \in { xs[i] : i \in GridIndex } : \A i \in GridIndex : xs[i] <= m

\* argmax taking the last grid angle instead of the one of the maximum
argmax_last(xs) == NumSamples - 1

\* int(np.argmax(x_vals)): the first index of the maximum
argmax(xs) == CHOOSE i \in GridIndex :
                  /\ xs[i] = max_of(xs)
                  /\ \A j \in GridIndex : j < i => xs[j] # max_of(xs)

\* int(np.argmin(...)) replaced by the first grid angle
argmin_first(xs, d) == 0

\* int(np.argmin(np.abs(np.array(x_vals) - distance))): the first index of the minimum
argmin_abs(xs, d) == CHOOSE i \in GridIndex :
                  /\ \A j \in GridIndex : Abs(xs[i] - d) <= Abs(xs[j] - d)
                  /\ \A j \in GridIndex : j < i => Abs(xs[j] - d) # Abs(xs[i] - d)

\* the test of the bracketing loop for index i, 1 <= i < len(angle_samples)
straddles(xs, d, i) == (xs[i - 1] - d) * (xs[i] - d) <= 0

BracketIndexes(xs, d) == { i \in 1 .. (NumSamples - 1) : straddles(xs, d, i) }

\* the bracketing loop run to its end: the last straddling pair
last_bracket(xs, d) == CHOOSE i \in BracketIndexes(xs, d) :
                           \A j \in BracketIndexes(xs, d) : j <= i

\* the index at which the bracketing loop breaks
first_bracket(xs, d) == CHOOSE i \in BracketIndexes(xs, d) :
                            \A j \in BracketIndexes(xs, d) : i <= j

\* the tuple returned: the trajectory values of r with the angle a
Returned(r, a) ==
    [ max_altitude |-> r.max_altitude, total_time |-> r.total_time,
      impact_velocity |-> r.impact_velocity, launch_angle_deg |-> a ]

NoReturn ==
    [ max_altitude |-> << >>, total_time |-> << >>,
      impact_velocity |-> << >>, launch_angle_deg |-> 0 ]

NoSims == [ grid |-> 0, bisect |-> 0, final |-> 0, given |-> 0 ]

NoXVals == [ i \in GridIndex |-> 0 ]

SolverInit ==
    /\ pc = "call"
    /\ distance \in Distances
    /\ launch_angle \in { << >> } \cup { <<a>> : a \in GivenAngles }
    /\ curve \in Curves
    /\ x_vals = NoXVals
    /\ angle_low = 0
    /\ angle_high = 0
    /\ iter = 0
    /\ ret = NoReturn
    /\ path = "none"
    /\ sims = NoSims
    /\ DragIdle
    /\ MpIdle
    /\ TrajIdle

\* the unreachable test of line 358
unreachable(d, xs) == d > max_of(xs)

\* mid_angle_of without the halving
mid_angle_of_unhalved(lo, hi) == lo + hi

\* the midpoint of line 375
mid_angle_of(lo, hi) == (lo + hi) \div 2

\* the narrowing test of line 379: TRUE moves angle_high, FALSE moves angle_low
narrow_high(x_mid, d, xs) == (x_mid - d) * (xs[0] - d) < 0

\* a convergence test that no midpoint passes
converged_never(x_mid, d) == FALSE

\* the convergence test of line 377
converged(x_mid, d) == Abs(x_mid - d) < UnitsPerMetre

\* lines 346-372: the supplied-angle return, the grid scan, the unreachable
\* return, the bracketing loop and its fallback
Scan ==
    /\ pc = "call"
    /\ IF launch_angle # << >>
       THEN /\ ret' = Returned(simulate_trajectory(launch_angle[1]), launch_angle[1])
            /\ path' = "given"
            /\ pc' = "done"
            /\ sims' = [sims EXCEPT !.given = 1]
            /\ UNCHANGED <<x_vals, angle_low, angle_high>>
       ELSE LET xs == [ i \in GridIndex |-> results[i].final_x ]
            IN  /\ x_vals' = xs
                /\ sims' = [sims EXCEPT !.grid = NumSamples]
                /\ IF unreachable(distance, xs)
                   THEN /\ ret' = Returned(results[argmax(xs)], Unreachable)
                        /\ path' = "unreachable"
                        /\ pc' = "done"
                        /\ UNCHANGED <<angle_low, angle_high>>
                   ELSE IF BracketIndexes(xs, distance) = {}
                   THEN LET idx == argmin_abs(xs, distance)
                        IN  /\ ret' = Returned(results[idx], angle_samples(idx))
                            /\ path' = "fallback"
                            /\ pc' = "done"
                            /\ UNCHANGED <<angle_low, angle_high>>
                   ELSE LET i == first_bracket(xs, distance)
                        IN  /\ angle_low' = angle_samples(i - 1)
                            /\ angle_high' = angle_samples(i)
                            /\ pc' = "bisect"
                            /\ UNCHANGED <<ret, path>>
    /\ UNCHANGED <<distance, launch_angle, curve, iter, dragVars, trajVars, mpVars>>

\* lines 374-382: one iteration of the binary search
Bisect ==
    /\ pc = "bisect"
    /\ iter < BisectIters
    /\ LET mid == mid_angle_of(angle_low, angle_high)
           r == simulate_trajectory(mid)
       IN  /\ sims' = [sims EXCEPT !.bisect = @ + 1]
           /\ iter' = iter + 1
           /\ IF converged(r.final_x, distance)
              THEN /\ ret' = Returned(r, mid)
                   /\ path' = "converged"
                   /\ pc' = "done"
                   /\ UNCHANGED <<angle_low, angle_high>>
              ELSE /\ IF narrow_high(r.final_x, distance, x_vals)
                      THEN angle_high' = mid /\ UNCHANGED angle_low
                      ELSE angle_low' = mid /\ UNCHANGED angle_high
                   /\ UNCHANGED <<ret, path, pc>>
    /\ UNCHANGED <<distance, launch_angle, curve, x_vals, dragVars, trajVars, mpVars>>

\* the choice of lines 386-389 turned round: the farther endpoint wins
farther_is_low(x_low, x_high, d) == Abs(x_low - d) > Abs(x_high - d)

\* the choice of lines 386-389: TRUE returns the low endpoint
closer_is_low(x_low, x_high, d) == Abs(x_low - d) < Abs(x_high - d)

\* lines 383-389: the loop ended without a return
ReturnClosest ==
    /\ pc = "bisect"
    /\ iter = BisectIters
    /\ LET rl == simulate_trajectory(angle_low)
           rh == simulate_trajectory(angle_high)
       IN  /\ sims' = [sims EXCEPT !.final = 2]
           /\ ret' = IF closer_is_low(rl.final_x, rh.final_x, distance)
                     THEN Returned(rl, angle_low)
                     ELSE Returned(rh, angle_high)
           /\ path' = "closest"
           /\ pc' = "done"
    /\ UNCHANGED <<distance, launch_angle, curve, x_vals, angle_low, angle_high, iter,
                   dragVars, trajVars, mpVars>>

\* no call of the angle solver is in progress
SolverIdle ==
    /\ pc = "idle"
    /\ distance = 0
    /\ launch_angle = << >>
    /\ curve = << >>
    /\ x_vals = NoXVals
    /\ angle_low = 0
    /\ angle_high = 0
    /\ iter = 0
    /\ ret = NoReturn
    /\ path = "none"
    /\ sims = NoSims

SolverNext == Scan \/ Bisect \/ ReturnClosest

SolverSpec == SolverInit /\ [][SolverNext]_vars

\* a call runs on until it returns: nothing but the call itself is scheduled
SolverFairSpec == SolverSpec /\ WF_vars(SolverNext)

-----------------------------------------------------------------------------
(***************************************************************************)
(* Properties of the angle solver.                                         *)
(***************************************************************************)

SolverReturned == pc = "done" /\ launch_angle = << >>

\* C1: with launch_angle_deg omitted, the returned launch angle is the
\* unreachable sentinel -1 or lies in [0, 75] degrees, on every return path.
C1_ReturnedAngleInRange ==
    SolverReturned =>
        \/ ret.launch_angle_deg = Unreachable
        \/ (0 <= ret.launch_angle_deg /\ ret.launch_angle_deg <= MaxAngle)

\* the 16 iterations were used up and an endpoint strictly inside the grid was returned
C1_Witness ==
    /\ SolverReturned
    /\ path = "closest"
    /\ iter = BisectIters
    /\ ret.launch_angle_deg > 0
    /\ ret.launch_angle_deg < MaxAngle
    /\ ret.launch_angle_deg % SubSteps # 0

\* C2: every return other than the sentinel has its final position within
\* 1 m of the target.
C2_ReturnedWithinTolerance ==
    (SolverReturned /\ ret.launch_angle_deg # Unreachable) =>
        Abs(final_x_at(curve, ret.launch_angle_deg) - distance) <= UnitsPerMetre

\* C3: a target beyond the final position of every grid angle gives the
\* sentinel -1 with the trajectory values of a grid angle of largest final
\* position, after the 30 grid simulations only.
C3_UnreachableSentinel ==
    (SolverReturned
        /\ \A i \in GridIndex : distance > final_x_at(curve, angle_samples(i))) =>
        /\ \E i \in GridIndex :
              /\ \A j \in GridIndex :
                    final_x_at(curve, angle_samples(j)) <= final_x_at(curve, angle_samples(i))
              /\ ret = Returned(simulate_trajectory(angle_samples(i)), Unreachable)
        /\ sims = [NoSims EXCEPT !.grid = NumSamples]

\* an unreachable target on a curve whose longest range is not at the last grid angle
C3_Witness ==
    /\ SolverReturned
    /\ path = "unreachable"
    /\ ret.launch_angle_deg = Unreachable
    /\ ret.max_altitude = <<"max_altitude", angle_samples(PeakIndex)>>
    /\ sims.bisect = 0

\* the final positions at the two ends of the bracket, less the target
LowResidual == simulate_trajectory(angle_low).final_x - distance

HighResidual == simulate_trajectory(angle_high).final_x - distance

\* C19: throughout the bisection the target stays bracketed: the final
\* positions at angle_low and at angle_high are never both strictly above
\* or both strictly below the target
C19_TargetStaysBracketed ==
    pc = "bisect" =>
       /\ ~(LowResidual > 0 /\ HighResidual > 0)
       /\ ~(LowResidual < 0 /\ HighResidual < 0)

\* the midpoint of the bracket lands within 1 m of the target
MidpointWithinTolerance ==
    Abs(simulate_trajectory((angle_low + angle_high) \div 2).final_x - distance)
       < UnitsPerMetre

\* C20: every call of the solver returns; it makes at most 30 grid
\* simulations, at most 16 bisection simulations and at most 2 endpoint
\* simulations, and at the first midpoint within 1 m of the target it
\* returns with that one simulation and no endpoint simulation
C20_BoundedWork ==
    /\ [](sims.grid <= 30 /\ sims.bisect <= 16 /\ sims.final <= 2)
    /\ [][(pc = "bisect" /\ iter < 16 /\ MidpointWithinTolerance)
             => (/\ pc' = "done"
                 /\ sims'.bisect = sims.bisect + 1
                 /\ sims'.final = 0)]_vars
    /\ [][pc = "done" => pc' = "done"]_vars
    /\ <>(pc = "done")

C20_Witness ==
    /\ pc = "done"
    /\ path = "converged"
    /\ sims.grid = 30
    /\ sims.bisect > 1
    /\ sims.bisect < 16
    /\ sims.final = 0

\* the distance from the target of the final position at angle a
Miss(a) == Abs(final_x_at(curve, a) - distance)

\* C21: when no bisection midpoint comes within 1 m of the target, the
\* solver returns the bracket endpoint whose final position is no farther
\* from the target than the other's, with the max altitude, flight time and
\* impact velocity of the trajectory launched at that endpoint
C21_ClosestEndpoint ==
    path = "closest" =>
       /\ ret.launch_angle_deg \in {angle_low, angle_high}
       /\ Miss(ret.launch_angle_deg) <= Miss(angle_low)
       /\ Miss(ret.launch_angle_deg) <= Miss(angle_high)
       /\ ret.max_altitude = <<"max_altitude", ret.launch_angle_deg>>
       /\ ret.total_time = <<"total_time", ret.launch_angle_deg>>
       /\ ret.impact_velocity = <<"impact_velocity", ret.launch_angle_deg>>

C21_Witness ==
    /\ pc = "done"
    /\ path = "closest"
    /\ iter = 16
    /\ sims.final = 2
    /\ ret.launch_angle_deg = angle_low
    /\ Miss(angle_low) < Miss(angle_high)

\* the final position at grid angle i
GridX(i) == final_x_at(curve, angle_samples(i))

\* the grid angles i - 1 and i have the target between their final positions
Straddled(i) == (GridX(i - 1) - distance) * (GridX(i) - distance) <= 0

StraddlingPairs == { i \in 1 .. (NumSamples - 1) : Straddled(i) }

\* C29: when more than one pair of adjacent grid angles straddles the
\* target, the bisection runs inside the pair of smallest angles, and the
\* angle it returns lies inside that pair
C29_FirstStraddlingPair ==
    (launch_angle = << >> /\ Cardinality(StraddlingPairs) > 1
        /\ (pc = "bisect" \/ path \in {"converged", "closest"})) =>
       \E i \in StraddlingPairs :
          /\ \A j \in StraddlingPairs : i <= j
          /\ angle_samples(i - 1) <= angle_low
          /\ angle_high <= angle_samples(i)
          /\ pc = "done" =>
                /\ angle_samples(i - 1) <= ret.launch_angle_deg
                /\ ret.launch_angle_deg <= angle_samples(i)

C29_Witness ==
    /\ pc = "done"
    /\ path = "converged"
    /\ Cardinality(StraddlingPairs) > 1
    /\ sims.bisect > 1
    /\ ret.launch_angle_deg < angle_samples(PeakIndex)

\* C30: the sentinel -1 is returned only for a target above every grid
\* final position; a target not above them all that no adjacent pair
\* straddles gives the grid angle whose final position is nearest to the
\* target (the first such angle), with that angle's trajectory values, and
\* no bisection
C30_NearestGridAngle ==
    SolverReturned =>
       /\ ret.launch_angle_deg = Unreachable =>
             \A i \in GridIndex : distance > GridX(i)
       /\ ((\E i \in GridIndex : distance <= GridX(i)) /\ StraddlingPairs = {}) =>
             /\ \E i \in GridIndex :
                   /\ \A j \in GridIndex :
                         Abs(GridX(i) - distance) <= Abs(GridX(j) - distance)
                   /\ ret = Returned(simulate_trajectory(angle_samples(i)),
                                     angle_samples(i))
             /\ sims = [NoSims EXCEPT !.grid = NumSamples]

C30_Witness ==
    /\ SolverReturned
    /\ path = "fallback"
    /\ StraddlingPairs = {}
    /\ ret.launch_angle_deg = MaxAngle
    /\ sims.bisect = 0


-----------------------------------------------------------------------------
(***************************************************************************)
(* Drag model (ballistics_lib.py).  A Reynolds number and a drag           *)
(* coefficient are exact rationals [n, d] with d > 0.                      *)
(***************************************************************************)

Rat(n, d) == [n |-> n, d |-> d]

\* a < b and a <= b for rationals of positive denominator, comparing the integer
\* parts first so that no product leaves the 32-bit range
RatLess(a, b) ==
    IF a.d = b.d THEN a.n < b.n
    ELSE \/ a.n \div a.d < b.n \div b.d
         \/ /\ a.n \div a.d = b.n \div b.d
            /\ (a.n % a.d) * b.d < (b.n % b.d) * a.d

RatLeq(a, b) == ~RatLess(b, a)

\* Re < k for an integer k
ReBelow(Re, k) == Re.n \div Re.d < k

\* Re**0.687 in thousandths at Re = 1, 2, 5, 10, ..., 1000
PowKnots == <<1, 2, 5, 10, 20, 50, 100, 200, 500, 1000>>

PowValues == <<1000, 1610, 3021, 4864, 7831, 14696, 23659, 38090, 71481, 115080>>

\* Re**0.687 in thousandths for 1 <= Re < 1000, linear between the knots
pow_0687_milli(Re) ==
    LET i == CHOOSE k \in 1 .. (Len(PowKnots) - 1) :
                 /\ ~ReBelow(Re, PowKnots[k])
                 /\ ReBelow(Re, PowKnots[k + 1])
    IN  PowValues[i]
          + ((PowValues[i + 1] - PowValues[i]) * (Re.n - PowKnots[i] * Re.d))
              \div ((PowKnots[i + 1] - PowKnots[i]) * Re.d)

\* the critical regime with the subtraction of line 214 turned into an addition
critical_cd_rising(Re) == Rat(6700000 * Re.d + 37 * Re.n, 30000000 * Re.d)

\* line 214: 0.47 - (0.47 - 0.1) * (Re - 2e5) / (5e5 - 2e5)
critical_cd(Re) == Rat(21500000 * Re.d - 37 * Re.n, 30000000 * Re.d)

\* drag_coefficient_sphere(reynolds_number)
drag_coefficient_sphere(Re) ==
    IF Re.n < (Re.d + 999999) \div 1000000 THEN Rat(0, 1)
    ELSE IF ReBelow(Re, 1) THEN Rat(24 * Re.d, Re.n)
    ELSE IF ReBelow(Re, 1000)
         THEN Rat(24 * Re.d * (100 + (15 * pow_0687_milli(Re)) \div 1000), 100 * Re.n)
    ELSE IF ReBelow(Re, 200000) THEN Rat(47, 100)
    ELSE IF ReBelow(Re, 500000) THEN critical_cd(Re)
    ELSE Rat(1, 10)

\* log10(Re) in thousandths at the knots of PowKnots
LogValues == <<0, 301, 699, 1000, 1301, 1699, 2000, 2301, 2699, 3000>>

\* math.log10(Re) in thousandths for 1 <= Re < 1000, linear between the knots
log10_milli(Re) ==
    LET i == CHOOSE k \in 1 .. (Len(PowKnots) - 1) :
                 /\ ~ReBelow(Re, PowKnots[k])
                 /\ ReBelow(Re, PowKnots[k + 1])
    IN  LogValues[i]
          + ((LogValues[i + 1] - LogValues[i]) * (Re.n - PowKnots[i] * Re.d))
              \div ((PowKnots[i + 1] - PowKnots[i]) * Re.d)

\* the table of drag_coefficient_shape, in hundredths; .get(shape, 1.0)
shape_cd(shape) ==
    CASE shape = "human_standing" -> 120
      [] shape = "human_prone" -> 70
      [] shape = "cylinder_side" -> 100
      [] shape = "cylinder_end" -> 80
      [] shape = "flat_plate" -> 128
      [] shape = "streamlined" -> 4
      [] shape = "cube" -> 105
      [] shape = "disk" -> 117
      [] shape = "cone_base" -> 50
      [] shape = "parachute" -> 130
      [] OTHER -> 100

\* drag_coefficient_shape with low_re_cd of line 287 taken as high_re_cd * 20:
\* the interpolation then starts below the value the Re < 1 branch ends on
drag_coefficient_shape_jump(shape, Re) ==
    IF shape = "sphere" THEN drag_coefficient_sphere(Re)
    ELSE IF ReBelow(Re, 1)
         THEN LET m == IF RatLess(Re, Rat(1, 10)) THEN Rat(1, 10) ELSE Re
              IN  Rat(shape_cd(shape) * (m.n + 20 * m.d), 100 * m.n)
    ELSE IF ~ReBelow(Re, 1000) THEN Rat(shape_cd(shape), 100)
    ELSE Rat(shape_cd(shape) * (60000 - 19 * log10_milli(Re)), 300000)

\* drag_coefficient_shape(shape, reynolds_number)
drag_coefficient_shape(shape, Re) ==
    IF shape = "sphere" THEN drag_coefficient_sphere(Re)
    ELSE IF ReBelow(Re, 1)
         THEN LET m == IF RatLess(Re, Rat(1, 10)) THEN Rat(1, 10) ELSE Re
              IN  Rat(shape_cd(shape) * (m.n + 20 * m.d), 100 * m.n)
    ELSE IF ~ReBelow(Re, 1000) THEN Rat(shape_cd(shape), 100)
    ELSE Rat(shape_cd(shape) * (63000 - 20 * log10_milli(Re)), 300000)

-----------------------------------------------------------------------------
(***************************************************************************)
(* Atmosphere.  Altitude in m, temperature in K/100, density in g/m^3,     *)
(* viscosity in 1e-8 Pa s, gravity in mm/s^2.  G * mass is in km^3/s^2 and  *)
(* a radius in units of 100 m.                                             *)
(***************************************************************************)

\* x0 * exp(-h / H) for h >= 0, with half == H * ln 2: halved every half
\* metres, linear in between
ExpDecay(x0, h, half) ==
    LET k == h \div half
    IN  IF k >= 20 THEN 0
        ELSE LET b == x0 \div (2 ^ k)
             IN  b - (b * (h % half)) \div (2 * half)

\* G * mass / radius**2 with gm == G * mass
inverse_square(gm, radius) == (((gm * 1000) \div radius) * 100000) \div radius

\* motion_lib: G * earth_mass, earth_radius
earth_mass == 398589

earth_radius == 63753

\* motion_lib.gravity_acceleration_for_radius(mass, radius)
gravity_acceleration_for_radius(mass, radius) == inverse_square(mass, radius)

\* motion_lib.atmospheric_density(altitude): 1.225 * exp(-altitude / 8500)
atmospheric_density(altitude) == ExpDecay(1225, altitude, 5892)

\* ballistics_lib: G * EARTH_MASS, EARTH_RADIUS
EARTH_MASS == 398589

EARTH_RADIUS == 63710

\* get_temperature_at_altitude(altitude)
get_temperature_at_altitude(altitude) ==
    LET a == IF altitude < 0 THEN 0 ELSE altitude
    IN  IF a <= 11000 THEN 28815 - (65 * a) \div 100
        ELSE IF a <= 20000 THEN 21665
        ELSE 21665

\* rho0 * (T / T0) ** 4.2559 at 0, 1, ..., 11 km
IsaDensity == <<1225, 1112, 1006, 909, 819, 736, 660, 589, 525, 466, 413, 364>>

\* get_air_density_isa(altitude), temperature None
get_air_density_isa(altitude) ==
    LET a == IF altitude < 0 THEN 0 ELSE altitude
        k == a \div 1000
    IN  IF a < 11000
        THEN IsaDensity[k + 1]
               + ((IsaDensity[k + 2] - IsaDensity[k + 1]) * (a % 1000)) \div 1000
        ELSE IF a = 11000 THEN IsaDensity[12]
        ELSE ExpDecay(IsaDensity[12], a - 11000, 4396)

\* get_dynamic_viscosity(temperature): Sutherland's formula, linear between its
\* values at 216.65 K and 288.15 K
get_dynamic_viscosity(temperature) ==
    1422 + ((temperature - 21665) * 367) \div 7150

\* gravity_at_altitude(altitude)
gravity_at_altitude(altitude) ==
    inverse_square(EARTH_MASS, EARTH_RADIUS + altitude \div 100)

\* number of Reynolds numbers sampled inside each regime above Re = 1000
RePoints == 6

\* the Reynolds numbers evaluated: the regime boundaries, their neighbours, and
\* RePoints values spread over each of the three regimes above 1000
ReSamples ==
    { Rat(1, 10000000), Rat(1, 2), Rat(1, 1), Rat(15, 2), Rat(999, 1) }
      \cup { Rat(k, 1) : k \in { 1000, 1001, 199999, 200000, 200001, 499999,
                                500000, 500001 } }
      \cup { Rat(1000 + j * (199000 \div (RePoints + 1)), 1) : j \in 1 .. RePoints }
      \cup { Rat(200000 + j * (300000 \div (RePoints + 1)), 1) : j \in 1 .. RePoints }
      \cup { Rat(500000 + j * 100000, 1) : j \in 1 .. RePoints }

DragInit ==
    /\ DragIdle
    /\ MpIdle
    /\ SolverIdle
    /\ TrajIdle

\* one call drag_coefficient_sphere(Re); the two most recent calls are kept
EvalSphere ==
    /\ \E Re \in ReSamples :
          LET e == [Re |-> Re, Cd |-> drag_coefficient_sphere(Re)]
          IN  evals' = IF Len(evals) < 2 THEN Append(evals, e) ELSE <<evals[2], e>>
    /\ UNCHANGED <<solverVars, trajVars, mpVars>>

DragNext == EvalSphere

DragSpec == DragInit /\ [][DragNext]_vars

-----------------------------------------------------------------------------
(***************************************************************************)
(* Properties of the drag model.                                           *)
(***************************************************************************)

\* C10: the drag crisis: Cd above 0.40 for Re in [1000, 2e5], below 0.20 for
\* Re >= 5e5, strictly between 0.1 and 0.47 for Re strictly between 2e5 and
\* 5e5, and non-increasing in Re for Re >= 1000.
C10_DragCrisis ==
    /\ \A k \in 1 .. Len(evals) :
          LET Re == evals[k].Re
              Cd == evals[k].Cd
          IN  /\ (~ReBelow(Re, 1000) /\ RatLeq(Re, Rat(200000, 1)))
                    => RatLess(Rat(40, 100), Cd)
              /\ ~ReBelow(Re, 500000) => RatLess(Cd, Rat(20, 100))
              /\ (RatLess(Rat(200000, 1), Re) /\ ReBelow(Re, 500000))
                    => (RatLess(Rat(10, 100), Cd) /\ RatLess(Cd, Rat(47, 100)))
    /\ (Len(evals) = 2 /\ ~ReBelow(evals[1].Re, 1000)
           /\ RatLeq(evals[1].Re, evals[2].Re))
          => RatLeq(evals[2].Cd, evals[1].Cd)

\* two evaluations inside the drag crisis, the second at the larger Re and smaller Cd
C10_Witness ==
    /\ Len(evals) = 2
    /\ RatLess(Rat(200000, 1), evals[1].Re)
    /\ RatLess(evals[1].Re, evals[2].Re)
    /\ ReBelow(evals[2].Re, 500000)
    /\ RatLess(evals[2].Cd, evals[1].Cd)
    /\ RatLess(evals[2].Cd, Rat(20, 100))
    /\ RatLess(Rat(40, 100), evals[1].Cd)

\* a = b for rationals of positive denominator
RatEq(a, b) == ~RatLess(a, b) /\ ~RatLess(b, a)

\* C11: drag_coefficient_sphere is the five-regime function for every
\* Re > 0: 24/Re for Re < 1, however small, 24/Re*(1+0.15*Re^0.687) for
\* 1 <= Re < 1000, 0.47 for 1000 <= Re < 2e5, the line from 0.47 to 0.1 for
\* 2e5 <= Re < 5e5, and 0.1 from 5e5 on.
C11_FiveRegimes ==
    \A k \in 1 .. Len(evals) :
       LET Re == evals[k].Re
           Cd == evals[k].Cd
       IN  Re.n > 0 =>
             /\ ReBelow(Re, 1) => RatEq(Cd, Rat(24 * Re.d, Re.n))
             /\ (~ReBelow(Re, 1) /\ ReBelow(Re, 1000))
                   => RatEq(Cd, Rat(24 * Re.d * (100 + (15 * pow_0687_milli(Re)) \div 1000),
                                    100 * Re.n))
             /\ (~ReBelow(Re, 1000) /\ ReBelow(Re, 200000)) => RatEq(Cd, Rat(47, 100))
             /\ (~ReBelow(Re, 200000) /\ ReBelow(Re, 500000))
                   => RatEq(Cd, Rat(21500000 * Re.d - 37 * Re.n, 30000000 * Re.d))
             /\ ~ReBelow(Re, 500000) => RatEq(Cd, Rat(1, 10))

-----------------------------------------------------------------------------
(***************************************************************************)
(* ShapeSpec: evaluations of drag_coefficient_shape for the shapes of its  *)
(* table.                                                                  *)
(***************************************************************************)

\* the keys of the table of drag_coefficient_shape
TabulatedShapes ==
    { "human_standing", "human_prone", "cylinder_side", "cylinder_end",
      "flat_plate", "streamlined", "cube", "disk", "cone_base", "parachute" }

\* number of Reynolds numbers sampled in each decade of the transition region
ShapeRePoints == 2

\* the Reynolds numbers evaluated: zero, values below and above the floor of
\* 0.1, the two boundaries with their neighbours, and ShapeRePoints values in
\* each decade between 1 and 1000
ShapeReSamples ==
    { Rat(0, 1), Rat(1, 20), Rat(1, 10), Rat(1, 5), Rat(1, 2), Rat(9, 10),
      Rat(1, 1), Rat(3, 2), Rat(999, 1), Rat(1000, 1), Rat(1001, 1),
      Rat(200000, 1) }
      \cup { Rat(j * (10 \div (ShapeRePoints + 1)), 1) : j \in 1 .. ShapeRePoints }
      \cup { Rat(10 + j * (90 \div (ShapeRePoints + 1)), 1) : j \in 1 .. ShapeRePoints }
      \cup { Rat(100 + j * (900 \div (ShapeRePoints + 1)), 1) : j \in 1 .. ShapeRePoints }

ShapeInit ==
    /\ DragIdle
    /\ MpIdle
    /\ SolverIdle
    /\ TrajIdle

\* one call drag_coefficient_shape(shape, Re); the two most recent calls for
\* the same shape are kept
EvalShape ==
    /\ \E shape \in TabulatedShapes, Re \in ShapeReSamples :
          LET e == [shape |-> shape, Re |-> Re,
                    Cd |-> drag_coefficient_shape(shape, Re)]
          IN  evals' = IF evals = << >> \/ evals[Len(evals)].shape # shape
                          THEN <<e>>
                          ELSE <<evals[Len(evals)], e>>
    /\ UNCHANGED <<solverVars, trajVars, mpVars>>

ShapeNext == EvalShape

ShapeSpec == ShapeInit /\ [][ShapeNext]_vars

\* c * (1 + 20 / max(Re, 0.1)) with c in hundredths, Re < 1
StokesLike(c, Re) ==
    LET m == IF RatLess(Re, Rat(1, 10)) THEN Rat(1, 10) ELSE Re
    IN  Rat(c * (m.n + 20 * m.d), 100 * m.n)

\* the line in log10(Re) from 21 c at log 0 to c at log 3, logRe in thousandths
LogLinear(c, logRe) == Rat(c * (63000 - 20 * logRe), 300000)

\* C23: for every shape of the table with coefficient c,
\* drag_coefficient_shape is c * (1 + 20 / max(Re, 0.1)) for Re < 1, at most
\* 201 c; the log-linear interpolation between 21 c at Re = 1 and c at
\* Re = 1000 for 1 <= Re < 1000; c for Re >= 1000; the branches meet at Re = 1
\* and at Re = 1000; and the value never increases with Re.
C23_ShapeDrag ==
    /\ \A k \in 1 .. Len(evals) :
          LET Re == evals[k].Re
              Cd == evals[k].Cd
              c == shape_cd(evals[k].shape)
          IN  /\ ReBelow(Re, 1) =>
                    /\ RatEq(Cd, StokesLike(c, Re))
                    /\ RatLeq(Cd, Rat(201 * c, 100))
              /\ (~ReBelow(Re, 1) /\ ReBelow(Re, 1000))
                    => RatEq(Cd, LogLinear(c, log10_milli(Re)))
              /\ ~ReBelow(Re, 1000) => RatEq(Cd, Rat(c, 100))
              /\ RatEq(Re, Rat(1, 1)) => RatEq(Cd, StokesLike(c, Rat(1, 1)))
              /\ RatEq(Re, Rat(1000, 1)) => RatEq(Cd, LogLinear(c, 3000))
    /\ (Len(evals) = 2 /\ RatLeq(evals[1].Re, evals[2].Re))
          => RatLeq(evals[2].Cd, evals[1].Cd)

\* two evaluations for one shape on the two sides of Re = 1, the first at the
\* floor of 201 c and the second on the interpolation, below 21 c
C23_Witness ==
    /\ Len(evals) = 2
    /\ evals[1].shape = "cube"
    /\ ReBelow(evals[1].Re, 1)
    /\ RatEq(evals[1].Cd, Rat(201 * 105, 100))
    /\ ~ReBelow(evals[2].Re, 1)
    /\ ReBelow(evals[2].Re, 1000)
    /\ RatLess(evals[2].Cd, Rat(21 * 105, 100))
    /\ RatLess(Rat(105, 100), evals[2].Cd)


-----------------------------------------------------------------------------
(***************************************************************************)
(* The integrators: projectile_distance1/2/3 (ballistics_lib.py),          *)
(* ballistic_trajectory_with_drag and the supplied-angle path of           *)
(* ballistic_trajectory_with_drag_opt_angle (motion_lib.py).               *)
(*                                                                         *)
(* Units: speed argument in m/s, mass in kg, surface area in cm^2, drag    *)
(* coefficient in hundredths, air density in g/m^3, gravity in mm/s^2;     *)
(* positions in m, velocities of the state vector in cm/s, time in s.      *)
(* One unit in the last place of a position stands for one rounding error  *)
(* of the floating-point root finder.                                      *)
(***************************************************************************)

\* longest step the integrator takes (max_step), in seconds
StepSeconds == 10

\* the residuals a root of an event function can be left with when it lies
\* inside a step; at the start of a step the dense output is the sample
Residuals == {-1, 0, 1}

\* a / b rounded towards minus infinity, for a divisor of either sign
sdiv(a, b) == IF b > 0 THEN a \div b ELSE (-a) \div (-b)

\* a / b rounded towards plus infinity, b > 0
cdiv(a, b) == -((-a) \div b)

\* math.sin(math.radians(angle_deg)) in thousandths
sin_milli(angle_deg) ==
    CASE angle_deg = -10 -> -174
      [] angle_deg = 0 -> 0
      [] angle_deg = 45 -> 707
      [] angle_deg = 75 -> 966
      [] angle_deg = 90 -> 1000
      [] angle_deg = 120 -> 866

\* math.cos(math.radians(angle_deg)) in thousandths
cos_milli(angle_deg) ==
    CASE angle_deg = -10 -> 985
      [] angle_deg = 0 -> 1000
      [] angle_deg = 45 -> 707
      [] angle_deg = 75 -> 259
      [] angle_deg = 90 -> 0
      [] angle_deg = 120 -> -500

RECURSIVE newton_sqrt(_, _)
newton_sqrt(n, x) ==
    LET nx == (x + n \div x) \div 2
    IN  IF nx >= x THEN x ELSE newton_sqrt(n, nx)

\* math.sqrt rounded down
isqrt(n) == IF n <= 0 THEN 0 ELSE newton_sqrt(n, 46341)

\* math.hypot(a, b) and math.sqrt(a**2 + b**2)
hypot(a, b) ==
    IF Max2(Abs(a), Abs(b)) > 30000
    THEN 100 * isqrt((a \div 100) * (a \div 100) + (b \div 100) * (b \div 100))
    ELSE isqrt(a * a + b * b)

PD1 == "projectile_distance1"
PD2 == "projectile_distance2"
PD3 == "projectile_distance3"
BTD == "ballistic_trajectory_with_drag"
OPT == "ballistic_trajectory_with_drag_opt_angle"

Launch(speed, angle_deg, mass, surface_area, drag_coeff) ==
    [ speed |-> speed, angle_deg |-> angle_deg, mass |-> mass,
      surface_area |-> surface_area, drag_coeff |-> drag_coeff ]

\* launches that satisfy every launch-parameter invariant
ValidLaunches ==
    { Launch(100, 45, 5, 500, 47), Launch(1000, 75, 100, 1000, 47),
      Launch(300, 0, 6, 500, 47), Launch(100, 90, 5, 500, 47) }

\* a vertical launch above escape velocity with next to no drag
FastLaunch == Launch(12000, 90, 1000, 100, 10)

\* a fast, dense projectile at the steepest grid angle of the solver
HeavyLaunch == Launch(1000, 75, 1000, 1000, 47)

\* the first valid launch with one argument made invalid
InvalidLaunches ==
    { Launch(0, 45, 5, 500, 47), Launch(-100, 45, 5, 500, 47),
      Launch(100, -10, 5, 500, 47), Launch(100, 120, 5, 500, 47),
      Launch(100, 45, 0, 500, 47), Launch(100, 45, -5, 500, 47),
      Launch(100, 45, 5, 0, 47), Launch(100, 45, 5, -500, 47) }

Launches == ValidLaunches \cup {FastLaunch} \cup InvalidLaunches

TargetDistances == {-50, 0, 300, 50000}

InitialHeights == {0, 1000}

\* a call: the function, its launch arguments and its other arguments, the
\* defaults of the signature where the function has the argument
Call(fn, l, air_density, gravity, altitude_model, shape, d, h) ==
    [ fn |-> fn, speed |-> l.speed, angle_deg |-> l.angle_deg, mass |-> l.mass,
      surface_area |-> l.surface_area, drag_coeff |-> l.drag_coeff,
      air_density |-> air_density, gravity |-> gravity,
      altitude_model |-> altitude_model, shape |-> shape,
      distance |-> d, initial_height |-> h,
      return_trajectory |-> FALSE, n_points |-> 1000 ]

PdCalls ==
    { Call(PD1, l, 1225, 9810, FALSE, "none", 0, 0) : l \in Launches }
      \cup { Call(PD2, l, 1225, 9810, am, "none", 0, 0) :
                l \in Launches, am \in BOOLEAN }
      \cup { Call(PD3, l, 1225, 9810, am, sh, 0, 0) :
                l \in Launches, am \in BOOLEAN, sh \in {"sphere", "cube"} }

BtdCalls ==
    { Call(BTD, l, 0, 0, TRUE, "none", d, h) :
         l \in Launches \ {FastLaunch}, d \in TargetDistances, h \in InitialHeights }
      \cup { Call(BTD, FastLaunch, 0, 0, TRUE, "none", 50000, 0) }

OptCalls ==
    { Call(OPT, l, 0, 0, TRUE, "none", 300, h) :
         l \in (Launches \ {FastLaunch}) \cup {HeavyLaunch}, h \in InitialHeights }

\* largest n_points asked for
MaxPoints == 4

\* projectile_distance3 asked for the trajectory at n_points samples
TrajectoryCalls ==
    { [Call(PD3, l, 1225, 9810, FALSE, "sphere", 0, 0)
          EXCEPT !.return_trajectory = TRUE, !.n_points = n] :
         l \in ValidLaunches, n \in 0 .. MaxPoints }
      \cup { [Call(PD3, FastLaunch, 1225, 9810, TRUE, "sphere", 0, 0)
                 EXCEPT !.return_trajectory = TRUE, !.n_points = n] :
                n \in 0 .. MaxPoints }

\* valid launches with the caller's own gravity and air density, zero
\* included, and the first valid launch with an air density below zero
CallerEnvironmentCalls ==
    { Call(PD2, l, rho, g, am, "none", 0, 0) :
         l \in ValidLaunches, rho \in {0, 1225}, g \in {0, 1620}, am \in BOOLEAN }
      \cup { Call(PD3, l, rho, g, am, "sphere", 0, 0) :
                l \in ValidLaunches, rho \in {0, 1225}, g \in {0, 1620},
                am \in BOOLEAN }
      \cup { Call(fn, Launch(100, 45, 5, 500, 47), -1225, g, FALSE,
                  IF fn = PD3 THEN "sphere" ELSE "none", 0, 0) :
                fn \in {PD2, PD3}, g \in {1620, 9810} }

TrajCalls ==
    PdCalls \cup BtdCalls \cup OptCalls \cup TrajectoryCalls
       \cup CallerEnvironmentCalls

\* vertical launches of the functions that validate or take a target
PairCalls == { c \in TrajCalls : c.fn \in {PD2, PD3, BTD} /\ c.angle_deg = 90 }

\* the checks of lines 420-428 and 574-582 with the upper angle bound left out
invalid_parameter_no_upper(c) ==
    \/ c.speed <= 0
    \/ c.angle_deg < 0
    \/ c.mass <= 0
    \/ c.surface_area <= 0

\* the condition under which projectile_distance2/3 raise ValueError
invalid_parameter(c) ==
    \/ c.speed <= 0
    \/ ~(0 <= c.angle_deg /\ c.angle_deg <= 90)
    \/ c.mass <= 0
    \/ c.surface_area <= 0

\* the functions whose body starts with the input validation
validates(fn) == fn \in {PD2, PD3}

\* 0.5 * Cd * A * rho / mass in 1e-6 / m, Cd in 1e-4
k_micro(cd_e4, surface_area, rho, mass) ==
    sdiv(((cd_e4 * surface_area) \div 100) * rho, 2000 * mass)

\* a drag coefficient given as a rational, in 1e-4
cd_e4(r) ==
    IF r.d > 100000 THEN r.n \div (r.d \div 10000) ELSE (r.n * 10000) \div r.d

\* calculate_reynolds_number(velocity, length, rho, mu): velocity in cm/s,
\* length in mm, rounded down to an integer
calculate_reynolds_number(velocity, length, rho, mu) ==
    IF velocity < 1 THEN Rat(0, 1)
    ELSE IF Abs(rho * velocity) < 1000000
         THEN Rat((rho * velocity * length) \div mu, 1)
         ELSE Rat(((rho * velocity) \div mu) * length, 1)

\* default mu of calculate_reynolds_number and mu of line 627
mu_default == 1810

\* characteristic_length in mm
characteristic_length(c) == 2 * isqrt((c.surface_area * 100000) \div 3142)

\* altitude clamped to non-negative: max(0, y)
clamped(y) == IF y < 0 THEN 0 ELSE y

\* air density read by the derivative of c at height y
rho_of(c, y) ==
    CASE c.fn = PD1 -> c.air_density
      [] c.fn = PD2 -> IF c.altitude_model
                       THEN ExpDecay(c.air_density, clamped(y), 5822)
                       ELSE c.air_density
      [] c.fn = PD3 -> IF c.altitude_model
                       THEN get_air_density_isa(clamped(y))
                       ELSE c.air_density
      [] OTHER -> atmospheric_density(clamped(y))

\* the caller's gravity at every height, whatever altitude_model says
gravity_of_caller(c, y) == c.gravity

\* downward acceleration read by the derivative of c at height y
gravity_of(c, y) ==
    CASE c.fn \in {PD1, PD2} -> c.gravity
      [] c.fn = PD3 -> IF c.altitude_model
                       THEN gravity_at_altitude(clamped(y))
                       ELSE c.gravity
      [] OTHER -> gravity_acceleration_for_radius(
                      earth_mass, earth_radius + clamped(y) \div 100)

\* the caller's drag_coeff in 1e-4, whatever the function called
cd_of_caller(c, v, y) == c.drag_coeff * 100

\* drag coefficient in 1e-4 used by the derivative of c at speed v, height y
cd_of(c, v, y) ==
    IF c.fn = PD3
    THEN LET mu == IF c.altitude_model
                   THEN get_dynamic_viscosity(get_temperature_at_altitude(clamped(y)))
                   ELSE mu_default
             Re == calculate_reynolds_number(v, characteristic_length(c),
                                             rho_of(c, y), mu)
         IN  cd_e4(drag_coefficient_shape(c.shape, Re))
    ELSE c.drag_coeff * 100

\* k * v of the derivative in thousandths per second: the relative rate at
\* which drag removes velocity
drag_milli(c, s) ==
    LET v == hypot(s.vx, s.vy)
    IN  IF v = 0 THEN 0
        ELSE (k_micro(cd_of(c, v, s.y), c.surface_area, rho_of(c, s.y), c.mass) * v)
               \div 100000

\* the relative loss of velocity, in thousandths, that the error control
\* allows in one step
StepLossMilli == 300

\* the length of the step from s with time left to the end of the span: the
\* whole of max_step unless the error control asks for less, one second at
\* least, and signed like the span
step_length(c, s, left) ==
    LET d == Abs(drag_milli(c, s))
        wanted == IF d = 0 THEN StepSeconds
                  ELSE Min2(StepSeconds, Max2(1, StepLossMilli \div d))
    IN  IF left >= 0 THEN Min2(wanted, left) ELSE -Min2(wanted, -left)

\* the integrator cannot advance from s by h: the velocity has no finite
\* value at the end of the step
step_fails(c, s, h) == 1000 + drag_milli(c, s) * h <= 0

\* the state a step of length h leads to from s, drag taken implicitly
advance(c, s, h) ==
    LET factor == 1000 + drag_milli(c, s) * h
        nvx == (s.vx * 1000) \div factor
        nvy == ((s.vy - (gravity_of(c, s.y) * h) \div 10) * 1000) \div factor
    IN  [ x |-> s.x + ((s.vx + nvx) * h) \div 200,
          y |-> s.y + ((s.vy + nvy) * h) \div 200,
          vx |-> nvx, vy |-> nvy ]

\* y0 / y_init
initial_state(c) ==
    [ x |-> 0, y |-> c.initial_height,
      vx |-> (c.speed * cos_milli(c.angle_deg)) \div 10,
      vy |-> (c.speed * sin_milli(c.angle_deg)) \div 10 ]

\* min(t_estimate, 1000) caps the horizon of projectile_distance2/3
HorizonCap == 1000

\* t_span[1] of ballistic_trajectory_with_drag
BtdHorizon == 10000

\* t_span[1] of simulate_trajectory
SimHorizon == 120

\* t_vacuum * (1 + 2 * drag_factor) with no cap
t_estimate_uncapped(c, cd) ==
    cdiv(cdiv(2 * c.speed * sin_milli(c.angle_deg) * 100, c.gravity)
            * (1000 + (2 * k_micro(cd, c.surface_area, c.air_density, c.mass)
                         * c.speed) \div 1000),
         100000)

\* min(t_vacuum * (1 + 2 * drag_factor), 1000), cd the initial drag coefficient
t_estimate_capped(c, cd) ==
    LET num == 2 * c.speed * sin_milli(c.angle_deg)
        scale == 1000 + (2 * k_micro(cd, c.surface_area, c.air_density, c.mass)
                           * c.speed) \div 1000
    IN  IF num >= HorizonCap * c.gravity THEN HorizonCap
        ELSE Min2(HorizonCap, cdiv(cdiv(num * 100, c.gravity) * scale, 100000))

\* t_span[1] of the call
t_span_end(c) ==
    CASE c.fn = PD1 -> cdiv(2 * c.speed * sin_milli(c.angle_deg), c.gravity)
      [] c.fn = PD2 -> t_estimate_capped(c, c.drag_coeff * 100)
      [] c.fn = PD3 ->
           t_estimate_capped(c,
               cd_e4(drag_coefficient_shape(c.shape,
                   calculate_reynolds_number(c.speed * 100, characteristic_length(c),
                                             c.air_density, mu_default))))
      [] c.fn = BTD -> BtdHorizon
      [] c.fn = OPT -> SimHorizon

\* the event functions
hit_ground(s) == s.y

reach_distance(c, s) == s.x - c.distance

\* the directions with reach_distance left to fire on either crossing
event_direction_either(event) == IF event = "ground" THEN -1 ELSE 0

\* hit_ground.direction and reach_distance.direction
event_direction(event) == IF event = "ground" THEN -1 ELSE 1

\* the functions that pass reach_distance to solve_ivp
has_target_event(c) == c.fn = BTD

\* solve_ivp's find_active_events for one event
find_active_events(g, g_new, direction) ==
    LET up == g <= 0 /\ g_new >= 0
        down == g >= 0 /\ g_new <= 0
    IN  \/ up /\ direction > 0
        \/ down /\ direction < 0
        \/ (up \/ down) /\ direction = 0

\* where in the step the event function vanishes, in thousandths of the step
root_milli(g, g_new) ==
    LET n == Abs(g)
        d == Abs(g - g_new)
    IN  IF d = 0 THEN 0
        ELSE IF d > 1000000 THEN n \div (d \div 1000)
        ELSE (n * 1000) \div d

\* the dense output between two samples
interpolate(a, b, milli) == a + ((b - a) * milli) \div 1000

sol_at(s, s_new, milli) ==
    [ x |-> interpolate(s.x, s_new.x, milli), y |-> interpolate(s.y, s_new.y, milli),
      vx |-> interpolate(s.vx, s_new.vx, milli),
      vy |-> interpolate(s.vy, s_new.vy, milli) ]

\* the values of the event functions at s
event_values(c, s) == [ground |-> hit_ground(s), target |-> reach_distance(c, s)]

\* solve_ivp constructed on what the call before left behind: the launch
\* starts with 1 m/s of the earlier descent
started_from_previous(c) ==
    LET y0 == IF prev # << >> THEN [initial_state(c) EXCEPT !.vy = @ - 100]
              ELSE initial_state(c)
    IN  [ t |-> <<0>>, y |-> <<y0>>,
          t_events |-> [ground |-> << >>, target |-> << >>],
          status |-> 2, t_bound |-> t_span_end(c),
          g |-> event_values(c, y0), g_new |-> event_values(c, y0) ]

\* solve_ivp has been constructed: the first sample is the initial state
started(c) ==
    [ t |-> <<0>>, y |-> <<initial_state(c)>>,
      t_events |-> [ground |-> << >>, target |-> << >>],
      status |-> 2, t_bound |-> t_span_end(c),
      g |-> event_values(c, initial_state(c)),
      g_new |-> event_values(c, initial_state(c)) ]

Raised(kind) == [kind |-> kind]

\* the call reaches its first statement that can raise or its solve_ivp call
Start ==
    /\ tpc = "call"
    /\ IF validates(call.fn) /\ invalid_parameter(call)
       THEN /\ result' = Raised("ValueError")
            /\ tpc' = "raised"
            /\ UNCHANGED <<sol, work>>
       ELSE IF call.mass = 0 \/ (call.fn \in {PD1, PD2, PD3} /\ call.gravity = 0)
            THEN /\ result' = Raised("ZeroDivisionError")
                 /\ tpc' = "raised"
                 /\ work' = IF call.fn \in {BTD, OPT}
                            THEN [deriv_evals |-> 1, solver_calls |-> 1]
                            ELSE work
                 /\ UNCHANGED sol
            ELSE /\ sol' = started(call)
                 /\ work' = [deriv_evals |-> 1, solver_calls |-> 1]
                 /\ tpc' = "integrating"
                 /\ UNCHANGED result
    /\ UNCHANGED <<call, prev, rounding, solverVars, dragVars, mpVars>>

\* one pass of solve_ivp's loop: a step, then the events of the step
Step ==
    /\ tpc = "integrating"
    /\ LET n == Len(sol.t)
           t_old == sol.t[n]
           s == sol.y[n]
           left == sol.t_bound - t_old
           h == step_length(call, s, left)
       IN  IF step_fails(call, s, h)
           THEN /\ sol' = [sol EXCEPT !.status = -1]
                /\ tpc' = "solved"
                /\ UNCHANGED work
           ELSE LET s_new == advance(call, s, h)
                    g == event_values(call, s)
                    g_new == event_values(call, s_new)
                    ground == find_active_events(g.ground, g_new.ground,
                                                 event_direction("ground"))
                    target == /\ has_target_event(call)
                              /\ find_active_events(g.target, g_new.target,
                                                    event_direction("target"))
                    rg == root_milli(g.ground, g_new.ground)
                    rt == root_milli(g.target, g_new.target)
                    first == IF ground /\ (~target \/ rg <= rt) THEN "ground"
                             ELSE "target"
                    root == IF first = "ground" THEN rg ELSE rt
                    at == sol_at(s, s_new, root)
                IN  /\ work' = [work EXCEPT !.deriv_evals = @ + 1]
                    /\ IF ground \/ target
                       THEN /\ LET r == IF root = 0 THEN 0 ELSE rounding
                               IN
                                 sol' = [sol EXCEPT
                                    !.t = Append(@, t_old + (h * root) \div 1000),
                                    !.y = Append(@, IF first = "ground"
                                                    THEN [at EXCEPT !.y = r]
                                                    ELSE [at EXCEPT !.x = call.distance + r]),
                                    !.t_events[first] = <<t_old + (h * root) \div 1000>>,
                                    !.status = 1,
                                    !.g = g, !.g_new = g_new]
                            /\ tpc' = "solved"
                       ELSE /\ sol' = [sol EXCEPT
                                    !.t = Append(@, t_old + h),
                                    !.y = Append(@, s_new),
                                    !.status = IF t_old + h = sol.t_bound THEN 0 ELSE 2,
                                    !.g = g, !.g_new = g_new]
                            /\ tpc' = IF t_old + h = sol.t_bound THEN "solved"
                                      ELSE "integrating"
    /\ UNCHANGED <<call, result, prev, rounding, solverVars, dragVars, mpVars>>

RECURSIVE binsearch_left(_, _, _, _)
binsearch_left(a, v, lo, hi) ==
    IF lo >= hi THEN lo
    ELSE LET mid == lo + (hi - lo) \div 2
         IN  IF a[mid + 1] < v THEN binsearch_left(a, v, mid + 1, hi)
             ELSE binsearch_left(a, v, lo, mid)

\* np.searchsorted(a, v): a zero-based insertion index, 0 .. Len(a)
searchsorted(a, v) == binsearch_left(a, v, 0, Len(a))

\* sol.y[0]
x_traj(o) == [i \in 1 .. Len(o.y) |-> o.y[i].x]

\* np.max(y_traj[:stop]) for stop >= 1
max_y(o, stop) ==
    LET ys == { o.y[i].y : i \in 1 .. Min2(stop, Len(o.y)) }
    IN  CHOOSE m \in ys : \A k \in ys : k <= m

\* the first sample, where the last one is meant
fallback_first(o) == 1

\* the one-based position of the sample the fallback reads: index -1
fallback_index(o) == Len(o.y)

\* idx of ballistic_trajectory_with_drag, zero-based, -1 for the last sample
btd_idx(c, o) ==
    IF o.t_events.target # << >> THEN searchsorted(x_traj(o), c.distance) ELSE -1

\* lines 267-274
btd_result(c, o) ==
    LET idx == btd_idx(c, o)
        last == fallback_index(o)
    IN  IF idx > 0 /\ idx >= Len(o.t) THEN Raised("IndexError")
        ELSE [ kind |-> "value",
               max_altitude |-> IF idx > 0 THEN max_y(o, idx + 1)
                                ELSE max_y(o, Len(o.y)),
               total_time |-> IF idx > 0 THEN o.t[idx + 1] ELSE o.t[last],
               impact_velocity |-> IF idx > 0
                                   THEN hypot(o.y[idx + 1].vx, o.y[idx + 1].vy)
                                   ELSE hypot(o.y[last].vx, o.y[last].vy) ]

\* lines 339-350: simulate_trajectory and the return of the supplied angle
opt_result(c, o) ==
    [ kind |-> "value",
      max_altitude |-> max_y(o, Len(o.y)),
      total_time |-> o.t[Len(o.t)],
      impact_velocity |-> hypot(o.y[Len(o.y)].vx, o.y[Len(o.y)].vy),
      launch_angle_deg |-> c.angle_deg ]

\* the returns of projectile_distance1/2/3: the dense output at the event
\* time is the terminal sample
pd_result(c, o) ==
    [ kind |-> "value",
      distance |-> IF o.t_events.ground # << >> THEN o.y[Len(o.y)].x
                   ELSE o.y[fallback_index(o)].x ]

\* np.linspace(0, stop, n)
linspace(stop, n) ==
    [i \in 1 .. n |-> IF n = 1 THEN 0 ELSE (stop * (i - 1)) \div (n - 1)]

\* sol.sol(t) for one time of the span: the interpolant of the segment
\* that holds t
dense_output(o, t) ==
    IF t >= o.t[Len(o.t)] THEN o.y[Len(o.y)]
    ELSE LET k == CHOOSE j \in 1 .. (Len(o.t) - 1) : o.t[j] <= t /\ t < o.t[j + 1]
         IN  sol_at(o.y[k], o.y[k + 1],
                    ((t - o.t[k]) * 1000) \div (o.t[k + 1] - o.t[k]))

\* lines 679-710 with return_trajectory: sol.sol of an empty array of times
\* has no segment to stack and raises ValueError
pd3_trajectory(c, o) ==
    LET t_final == IF o.t_events.ground # << >> THEN o.t_events.ground[1]
                   ELSE o.t[Len(o.t)]
        t_trajectory == linspace(t_final, c.n_points)
        states == [i \in 1 .. c.n_points |-> dense_output(o, t_trajectory[i])]
    IN  IF c.n_points = 0 THEN Raised("ValueError")
        ELSE [ kind |-> "value",
               distance |-> pd_result(c, o).distance,
               t |-> t_trajectory,
               x |-> [i \in 1 .. c.n_points |-> states[i].x],
               y |-> [i \in 1 .. c.n_points |-> states[i].y],
               vx |-> [i \in 1 .. c.n_points |-> states[i].vx],
               vy |-> [i \in 1 .. c.n_points |-> states[i].vy],
               speed |-> [i \in 1 .. c.n_points |->
                            hypot(states[i].vx, states[i].vy)] ]

\* the statements after solve_ivp
Finish ==
    /\ tpc = "solved"
    /\ LET r == CASE call.fn = BTD -> btd_result(call, sol)
                  [] call.fn = OPT -> opt_result(call, sol)
                  [] call.fn = PD3 /\ call.return_trajectory
                        -> pd3_trajectory(call, sol)
                  [] OTHER -> pd_result(call, sol)
       IN  /\ result' = r
           /\ tpc' = IF r.kind = "value" THEN "returned" ELSE "raised"
    /\ UNCHANGED <<call, sol, work, prev, rounding, solverVars, dragVars, mpVars>>

\* a terminal event ended the run o
landed(o) == o.t_events.ground # << >> \/ o.t_events.target # << >>

\* the caller calls the same function again and keeps what the first call
\* returned
NextCall ==
    /\ tpc = "returned"
    /\ prev = << >>
    /\ prev' = [fn |-> call.fn, result |-> result, landed |-> landed(sol)]
    /\ \E c \in PairCalls :
          /\ c.fn = call.fn
          /\ call' = c
    /\ tpc' = "call"
    /\ sol' = NoSol
    /\ result' = << >>
    /\ work' = NoWork
    /\ UNCHANGED <<rounding, solverVars, dragVars, mpVars>>

TrajInit ==
    /\ call \in TrajCalls
    /\ tpc = "call"
    /\ sol = NoSol
    /\ result = << >>
    /\ work = NoWork
    /\ prev = << >>
    /\ rounding \in Residuals
    /\ SolverIdle
    /\ DragIdle
    /\ MpIdle

TrajNext == Start \/ Step \/ Finish

TrajSpec == TrajInit /\ [][TrajNext]_vars

TrajPairInit ==
    /\ call \in PairCalls
    /\ tpc = "call"
    /\ sol = NoSol
    /\ result = << >>
    /\ work = NoWork
    /\ prev = << >>
    /\ rounding \in Residuals
    /\ SolverIdle
    /\ DragIdle
    /\ MpIdle

TrajPairNext == Start \/ Step \/ Finish \/ NextCall

TrajPairSpec == TrajPairInit /\ [][TrajPairNext]_vars

\* ---- a caller that makes several calls one after the other ----

\* the factor a launch's mass is varied by, and the drag coefficient its
\* drag coefficient is varied to
MassFactor == 10

HighDragCoeff == 150

\* launches a caller compares: flat, oblique, steep and vertical
ComparedLaunches ==
    { Launch(300, 0, 6, 500, 47), Launch(100, 45, 10, 500, 47),
      Launch(100, 75, 100, 1000, 47), Launch(100, 90, 5, 500, 47) }

\* the compared launches, each with its mass and its drag coefficient varied
SessionLaunches ==
    UNION { { Launch(l.speed, l.angle_deg, m, l.surface_area, cd) :
                 m \in {l.mass, MassFactor * l.mass},
                 cd \in {l.drag_coeff, HighDragCoeff} } : l \in ComparedLaunches }

SessionTargets == {300, 50000}

\* shape tags given to projectile_distance3: the default, one more key of
\* shape_coefficients, and a tag that is not a key
SessionShapes == {"sphere", "cube", "brick"}

SessionCalls ==
    { Call(fn, l, 1225, 9810, FALSE, "none", 0, 0) :
         fn \in {PD1, PD2}, l \in SessionLaunches }
      \cup { Call(PD3, l, 1225, 9810, FALSE, sh, 0, 0) :
                l \in SessionLaunches, sh \in SessionShapes }
      \cup { Call(BTD, l, 0, 0, TRUE, "none", d, h) :
                l \in SessionLaunches, d \in SessionTargets, h \in InitialHeights }
      \cup { Call(OPT, l, 0, 0, TRUE, "none", 300, 0) : l \in SessionLaunches }

\* the calls with the arguments of c, but for the mass or but for the drag
\* coefficient
OneArgumentApart(c) ==
    { c2 \in SessionCalls : \/ [c2 EXCEPT !.mass = c.mass] = c
                            \/ [c2 EXCEPT !.drag_coeff = c.drag_coeff] = c }

\* the caller keeps what the first call returned and calls again: first a
\* call one argument apart (or the same call), then the first call once more
CallAgain ==
    /\ tpc \in {"returned", "raised"}
    /\ \/ /\ prev = << >>
          /\ prev' = [call |-> call, result |-> result, calls |-> 1]
          /\ call' \in OneArgumentApart(call)
       \/ /\ prev # << >>
          /\ prev.calls = 1
          /\ prev' = [prev EXCEPT !.calls = 2]
          /\ call' = prev.call
    /\ tpc' = "call"
    /\ sol' = NoSol
    /\ result' = << >>
    /\ work' = NoWork
    /\ UNCHANGED <<rounding, solverVars, dragVars, mpVars>>

TrajSessionInit ==
    /\ call \in SessionCalls
    /\ tpc = "call"
    /\ sol = NoSol
    /\ result = << >>
    /\ work = NoWork
    /\ prev = << >>
    /\ rounding \in Residuals
    /\ SolverIdle
    /\ DragIdle
    /\ MpIdle

TrajSessionNext == Start \/ Step \/ Finish \/ CallAgain

TrajSessionSpec == TrajSessionInit /\ [][TrajSessionNext]_vars

-----------------------------------------------------------------------------
(***************************************************************************)
(* Properties of the integrators.                                          *)
(***************************************************************************)

\* the call has ended, by a return or by an exception
Ended == tpc \in {"returned", "raised"}

\* the call has integrated and then ended
Integrated == Ended /\ Len(sol.t) > 0

\* C4: projectile_distance2 and projectile_distance3 raise ValueError when
\* speed <= 0, the angle is outside [0, 90], mass <= 0 or the surface area
\* is <= 0, before any derivative evaluation or solver call, and never
\* integrate with a clamped value instead.
C4_ValidationBeforeIntegration ==
    (/\ call.fn \in {PD2, PD3}
     /\ \/ call.speed <= 0
        \/ call.angle_deg < 0
        \/ call.angle_deg > 90
        \/ call.mass <= 0
        \/ call.surface_area <= 0)
      => /\ tpc \in {"call", "raised"}
         /\ work = NoWork
         /\ sol = NoSol
         /\ tpc = "raised" => result = Raised("ValueError")

C4_Witness ==
    /\ call.fn = PD3
    /\ call.angle_deg > 90
    /\ tpc = "raised"
    /\ result = Raised("ValueError")

\* C5: ballistic_trajectory_with_drag, the angle solver with a supplied
\* angle and projectile_distance1 fail with an invalid-parameter error when
\* speed <= 0, the angle is outside [0, 90], mass <= 0 or the area is <= 0,
\* instead of integrating with the invalid value.
C5_InvalidLaunchRejected ==
    (/\ call.fn \in {BTD, OPT, PD1}
     /\ \/ call.speed <= 0
        \/ call.angle_deg < 0
        \/ call.angle_deg > 90
        \/ call.mass <= 0
        \/ call.surface_area <= 0)
      => /\ tpc \in {"call", "raised"}
         /\ work.solver_calls = 0
         /\ tpc = "raised" => result = Raised("ValueError")

\* C6: what projectile_distance2, projectile_distance3 and
\* ballistic_trajectory_with_drag return tells a run ended by a terminal
\* event from a run in which no event fired: two calls of one function that
\* ended differently never return the same value.
C6_OutcomeDistinguishable ==
    (/\ prev # << >>
     /\ tpc = "returned"
     /\ call.fn \in {PD2, PD3, BTD}
     /\ prev.landed # landed(sol))
      => result # prev.result

\* C7: when no terminal event fires, projectile_distance1/2/3 and
\* ballistic_trajectory_with_drag return without raising, and return the
\* values of the last integration point: its x as the distance, its time as
\* the flight time, its speed as the impact velocity.
C7_FallbackToLastPoint ==
    (/\ call.fn \in {PD1, PD2, PD3, BTD}
     /\ Integrated
     /\ sol.t_events.ground = << >>
     /\ sol.t_events.target = << >>)
      => /\ tpc = "returned"
         /\ result.kind = "value"
         /\ call.fn = BTD =>
               /\ result.total_time = sol.t[Len(sol.t)]
               /\ result.impact_velocity
                     = hypot(sol.y[Len(sol.y)].vx, sol.y[Len(sol.y)].vy)
         /\ call.fn # BTD => result.distance = sol.y[Len(sol.y)].x

C7_Witness ==
    /\ call.fn = BTD
    /\ tpc = "returned"
    /\ sol.status = 0
    /\ sol.t_events = [ground |-> << >>, target |-> << >>]
    /\ Len(sol.t) > 2
    /\ result.total_time = BtdHorizon

\* the last step of the run, as the event functions saw it
GroundCrossedDown == sol.g.ground >= 0 /\ sol.g_new.ground <= 0

TargetCrossedUp == sol.g.target <= 0 /\ sol.g_new.target >= 0

C8_Events ==
    (call.fn = BTD /\ Len(sol.t) > 1) =>
       /\ sol.t_events.ground # << >> => GroundCrossedDown
       /\ sol.t_events.target # << >> => TargetCrossedUp
       /\ ~(sol.t_events.ground # << >> /\ sol.t_events.target # << >>)
       /\ (sol.t_events.ground # << >> /\ TargetCrossedUp)
             => root_milli(sol.g.ground, sol.g_new.ground)
                   <= root_milli(sol.g.target, sol.g_new.target)
       /\ (sol.t_events.target # << >> /\ GroundCrossedDown)
             => root_milli(sol.g.target, sol.g_new.target)
                   < root_milli(sol.g.ground, sol.g_new.ground)
       /\ (sol.t_events.ground # << >> \/ sol.t_events.target # << >>)
             => /\ sol.status = 1
                /\ sol.t_events[IF sol.t_events.ground # << >> THEN "ground"
                                ELSE "target"] = <<sol.t[Len(sol.t)]>>
       /\ sol.status \in {0, 2} => ~GroundCrossedDown /\ ~TargetCrossedUp

\* C8: in ballistic_trajectory_with_drag the integration stops at the first
\* of two events and takes no step after it: y crossing zero downwards,
\* never upwards and so not when leaving y = 0 at launch, or x crossing the
\* target distance upwards, never downwards.
C8_StopsAtFirstEvent ==
    /\ []C8_Events
    /\ [][(call.fn = BTD /\ sol.status = 1) => sol' = sol]_vars

C8_Witness ==
    /\ call.fn = BTD
    /\ Len(sol.t) > 3
    /\ sol.y[1].y = 0
    /\ sol.y[1].vy > 0
    /\ sol.t_events.ground # << >>
    /\ tpc = "returned"

\* C9: when an event ends ballistic_trajectory_with_drag it reports the
\* terminal time as flight time and the terminal speed as impact velocity;
\* when the target event fired, the index found by searching the x
\* positions for the target is a valid index and is that of the last
\* sample, with the terminal x just below or just above the target.
C9_TerminalSampleReported ==
    (/\ call.fn = BTD
     /\ Integrated
     /\ sol.status = 1)
      => /\ tpc = "returned"
         /\ result.kind = "value"
         /\ result.total_time = sol.t[Len(sol.t)]
         /\ result.impact_velocity
               = hypot(sol.y[Len(sol.y)].vx, sol.y[Len(sol.y)].vy)
         /\ sol.t_events.target # << >>
               => searchsorted(x_traj(sol), call.distance) = Len(sol.t) - 1

\* C12: with return_trajectory=True and n_points = n, projectile_distance3
\* returns t, x, y, vx, vy and speed of exactly n entries each, t evenly
\* spaced from 0 to the terminal time, so that for n >= 2 the first sample is
\* the launch state and the last sample the terminal state, y = 0 after a
\* ground impact.
C12_TrajectorySamples ==
    (/\ call.fn = PD3
     /\ call.return_trajectory
     /\ Integrated)
      => LET n == call.n_points
             last == Len(sol.t)
         IN  /\ tpc = "returned"
             /\ result.kind = "value"
             /\ \A a \in {result.t, result.x, result.y, result.vx, result.vy,
                          result.speed} : Len(a) = n
             /\ \A i \in 1 .. (n - 2) :
                   Abs((result.t[i + 2] - result.t[i + 1])
                         - (result.t[i + 1] - result.t[i])) <= 1
             /\ n >= 2 =>
                   /\ result.t[1] = 0 /\ result.x[1] = 0 /\ result.y[1] = 0
                   /\ result.t[n] = sol.t[last]
                   /\ result.x[n] = sol.y[last].x
                   /\ result.vy[n] = sol.y[last].vy
                   /\ sol.t_events.ground # << >> => result.y[n] \in Residuals

-----------------------------------------------------------------------------
(***************************************************************************)
(* The atmosphere functions called on their own: AtmosSpec.                *)
(***************************************************************************)

\* altitudes are sampled every AltitudeStep metres
AltitudeStep == 500

\* the altitudes evaluated, below and above sea level, in m
Altitudes == { k * AltitudeStep : k \in -6 .. 44 } \cup {-1, -50, 11000, 20000}

AtmosInit ==
    /\ DragIdle
    /\ MpIdle
    /\ SolverIdle
    /\ TrajIdle

\* one call of each atmosphere function at one altitude; the two most recent
\* altitudes are kept
EvalAtmosphere ==
    /\ \E altitude \in Altitudes :
          LET e == [ altitude |-> altitude,
                     temperature |-> get_temperature_at_altitude(altitude),
                     density |-> get_air_density_isa(altitude),
                     gravity |-> gravity_at_altitude(altitude) ]
          IN  evals' = IF Len(evals) < 2 THEN Append(evals, e) ELSE <<evals[2], e>>
    /\ UNCHANGED <<solverVars, trajVars, mpVars>>

AtmosNext == EvalAtmosphere

AtmosSpec == AtmosInit /\ [][AtmosNext]_vars

\* C14: altitude is clamped to >= 0 in every component of the atmosphere
\* sample: at a negative altitude get_temperature_at_altitude,
\* get_air_density_isa and gravity_at_altitude each return their value at 0.
C14_AltitudeClamped ==
    \A k \in 1 .. Len(evals) :
       evals[k].altitude < 0 =>
          /\ evals[k].temperature = get_temperature_at_altitude(0)
          /\ evals[k].density = get_air_density_isa(0)
          /\ evals[k].gravity = gravity_at_altitude(0)


\* C15: a call of projectile_distance2 or projectile_distance3 whose launch
\* parameters pass validation meets no division by zero, whatever gravity and
\* air density the caller supplies
C15_NoArithmeticError ==
    (call.fn \in {PD2, PD3} /\ ~invalid_parameter(call))
       => ~(tpc = "raised" /\ result = Raised("ZeroDivisionError"))

SameBut(field) ==
    /\ prev # << >>
    /\ tpc = "returned"
    /\ prev.result.kind = "value"
    /\ [call EXCEPT ![field] = prev.call[field]] = prev.call
    /\ call[field] # prev.call[field]

\* the results of the lighter and of the heavier of two calls
Lighter == IF call.mass < prev.call.mass THEN result ELSE prev.result

Heavier == IF call.mass < prev.call.mass THEN prev.result ELSE result

\* C16: of two calls that differ in the mass only, the heavier projectile
\* has no smaller range (projectile_distance3) and no smaller flight time
\* (ballistic_trajectory_with_drag)
C16_MassMonotonic ==
    SameBut("mass") =>
       /\ call.fn = PD3 => Heavier.distance >= Lighter.distance
       /\ call.fn = BTD => Heavier.total_time >= Lighter.total_time

\* the results of the call with the lower and with the higher drag coefficient
LowDrag == IF call.drag_coeff < prev.call.drag_coeff THEN result ELSE prev.result

HighDrag == IF call.drag_coeff < prev.call.drag_coeff THEN prev.result ELSE result

\* C17: of two calls that differ in the drag coefficient only, the higher
\* coefficient has no larger range (projectile_distance3) and no larger
\* impact velocity (ballistic_trajectory_with_drag)
C17_DragMonotonic ==
    SameBut("drag_coeff") =>
       /\ call.fn = PD3 => HighDrag.distance <= LowDrag.distance
       /\ call.fn = BTD => HighDrag.impact_velocity <= LowDrag.impact_velocity

\* ---- relativity_lib: configure and ensure (relativity_lib.py 14-53) ----

\* the decimal places configure and the caller ask for
Precisions == {-1, 0, 1, 10, 50, 100}

\* conversions counted before the count stops
MaxConversions == 3

\* the values ensure is given: an mpf, a float, a string
Values == {"mpf", "float", "str"}

\* mp.dps = n: mpmath keeps max(1, int(n)) as its dps
set_dps(n) == IF n < 1 THEN 1 ELSE n

\* line 46: the constants were built at fewer places than mp.dps now
stale(cdp, dps) == cdp < dps

MpInit ==
    /\ MpIdle
    /\ SolverIdle
    /\ DragIdle
    /\ TrajIdle

\* configure(dps), lines 14-32
configure(dps) ==
    /\ mp_dps' = set_dps(dps)
    /\ configured_dp' = dps
    /\ mp_op' = [op |-> "configure", arg |-> dps]
    /\ UNCHANGED <<conversions, solverVars, dragVars, trajVars>>

\* the caller sets mp.dps itself
SetDps(dps) ==
    /\ mp_dps' = set_dps(dps)
    /\ mp_op' = [op |-> "set_dps", arg |-> dps]
    /\ UNCHANGED <<configured_dp, conversions, solverVars, dragVars, trajVars>>

\* ensure(v), lines 35-53
ensure(v) ==
    /\ conversions < MaxConversions
    /\ IF stale(configured_dp, mp_dps)
       THEN /\ mp_op' = [op |-> "ensure", arg |-> v, outcome |-> "ValueError"]
            /\ UNCHANGED conversions
       ELSE /\ mp_op' = [op |-> "ensure", arg |-> v, outcome |-> "returned"]
            /\ conversions' = IF v = "mpf" THEN conversions ELSE conversions + 1
    /\ UNCHANGED <<configured_dp, mp_dps, solverVars, dragVars, trajVars>>

Configure == \E d \in Precisions : configure(d)

RaisePrecision == \E d \in Precisions : SetDps(d)

Ensure == \E v \in Values : ensure(v)

MpNext == Configure \/ RaisePrecision \/ Ensure

MpSpec == MpInit /\ [][MpNext]_vars

\* C18: configure(d) leaves configured_dp and mp.dps at d and the ensure
\* call after it succeeds; while mp.dps is above configured_dp every ensure
\* call raises ValueError, converts nothing and leaves both precisions as
\* they are
C18_ConfigureThenEnsure ==
    /\ [](mp_op.op = "configure" => (configured_dp = mp_op.arg /\ mp_dps = mp_op.arg))
    /\ [][(mp_op.op = "configure" /\ \E v \in Values : ensure(v))
             => mp_op'.outcome = "returned"]_vars
    /\ [][(mp_dps > configured_dp /\ \E v \in Values : ensure(v))
             => (/\ mp_op'.outcome = "ValueError"
                 /\ conversions' = conversions
                 /\ mp_dps' > configured_dp')]_vars

\* C28: every simulation of the angle solver with valid launch parameters
\* ends on the ground-impact event inside its 120 s time span, so the final
\* position it records is a landing position
C28_CandidateLands ==
    (call.fn = OPT /\ ~invalid_parameter(call) /\ tpc = "returned") =>
       /\ sol.t_events.ground # << >>
       /\ sol.t[Len(sol.t)] <= SimHorizon
       /\ sol.y[Len(sol.y)].y \in Residuals

\* the time span of the call ends at or after the vacuum flight time
\* 2 * speed * sin(angle) / gravity
CoversVacuumFlight ==
    sol.t_bound * call.gravity >= 2 * call.speed * sin_milli(call.angle_deg)

\* the time span of a run of projectile_distance2/3 starts at 0, ends at or
\* before 1000 s and, when it ends before 1000 s, covers the vacuum flight
HorizonBounded ==
    /\ sol.t[1] = 0
    /\ sol.t_bound <= 1000
    /\ sol.t_bound < 1000 => CoversVacuumFlight

\* C22 as stated: for every launch that passes validation the time span of
\* projectile_distance2/3 ends at or before 1000 s and not before the vacuum
\* flight time unless the cap applies
C22_HorizonAnyEnvironment ==
    (call.fn \in {PD2, PD3} /\ ~invalid_parameter(call) /\ Integrated)
       => HorizonBounded

\* C22, with the environment the caller supplies restricted: the same, for
\* gravity above zero and an air density not below zero
C22_HorizonBounded ==
    (call.fn \in {PD2, PD3} /\ ~invalid_parameter(call) /\ Integrated
        /\ call.gravity > 0 /\ call.air_density >= 0)
       => HorizonBounded

C22_Witness ==
    /\ call.fn = PD2
    /\ tpc = "returned"
    /\ call.air_density > 0
    /\ sol.t_bound < 1000
    /\ (sol.t_bound - 1) * call.gravity > 2 * call.speed * sin_milli(call.angle_deg)
    /\ Len(sol.t) > 2

-----------------------------------------------------------------------------
(***************************************************************************)
(* DerivSpec: single evaluations of equations_of_motion, the derivative    *)
(* of projectile_distance2 and projectile_distance3.  Accelerations are in *)
(* mm/s^2; queried names what the evaluation reads and calls.              *)
(***************************************************************************)

\* [vx, vy, ax, ay] for air density rho, drag coefficient cd (1e-4) and
\* downward acceleration g: ax = -k * v * vx, ay = -k * v * vy - g
accelerations(c, s, rho, cd, g) ==
    LET v == hypot(s.vx, s.vy)
        kv == (k_micro(cd, c.surface_area, rho, c.mass) * v) \div 100000
    IN  <<s.vx, s.vy, -((kv * s.vx) \div 100), -((kv * s.vy) \div 100) - g>>

\* the names read by the early return of the derivative below 1e-10 m/s
queried_at_rest(c) ==
    IF c.fn = PD3 /\ c.altitude_model THEN {"gravity_at_altitude"} ELSE {"gravity"}

\* the names read by the derivative past its early return
queried_moving(c) ==
    IF c.fn = PD3
    THEN (IF c.altitude_model
          THEN {"get_temperature_at_altitude", "get_air_density_isa",
                "get_dynamic_viscosity", "gravity_at_altitude"}
          ELSE {"air_density", "gravity"})
           \cup {"calculate_reynolds_number", "drag_coefficient_shape"}
    ELSE {"air_density", "gravity", "drag_coeff"}
           \cup (IF c.altitude_model THEN {"exp"} ELSE {})

\* equations_of_motion without the test of the speed against 1e-10
equations_of_motion_unguarded(c, s) ==
    [ d |-> accelerations(c, s, rho_of(c, s.y),
                          cd_of(c, hypot(s.vx, s.vy), s.y), gravity_of(c, s.y)),
      queried |-> queried_moving(c) ]

\* equations_of_motion(t, state) of projectile_distance2/3; a velocity of the
\* model, in whole cm/s, is below 1e-10 m/s when it is zero
equations_of_motion(c, s) ==
    IF hypot(s.vx, s.vy) = 0
    THEN [ d |-> <<0, 0, 0, -gravity_of(c, s.y)>>, queried |-> queried_at_rest(c) ]
    ELSE [ d |-> accelerations(c, s, rho_of(c, s.y),
                               cd_of(c, hypot(s.vx, s.vy), s.y), gravity_of(c, s.y)),
           queried |-> queried_moving(c) ]

\* altitudes in steps of AltitudeGrid metres, one of them below the ground
AltitudeGrid == 4000

DerivAltitudes == { -50 } \cup { j * AltitudeGrid : j \in 0 .. 3 }

\* velocities in cm/s: at rest, level, falling, climbing
DerivVelocities == { <<0, 0>>, <<3000, 0>>, <<0, -2000>>, <<7000, 7000>> }

DerivStates ==
    { [x |-> 0, y |-> y, vx |-> w[1], vy |-> w[2]] :
         y \in DerivAltitudes, w \in DerivVelocities }

\* calls of projectile_distance2/3 whose gravity and air density differ from
\* those of the atmosphere model
DerivCalls ==
    { Call(PD2, l, rho, g, am, "none", 0, 0) :
         l \in ValidLaunches, rho \in {0, 1000}, g \in {1620, 9810}, am \in BOOLEAN }
      \cup { Call(PD3, l, rho, g, am, sh, 0, 0) :
                l \in ValidLaunches, rho \in {0, 1000}, g \in {1620, 9810},
                am \in BOOLEAN, sh \in {"sphere", "cube"} }

DerivInit ==
    /\ DragIdle
    /\ MpIdle
    /\ SolverIdle
    /\ TrajIdle

\* one evaluation equations_of_motion(t, state) inside a call c: the first
\* evaluation of a call, or one more evaluation of the call under way
EvalDerivative ==
    /\ \E c \in (IF evals = << >> THEN DerivCalls ELSE {evals[1].call}),
          s \in DerivStates :
          evals' = << [call |-> c, state |-> s, out |-> equations_of_motion(c, s)] >>
    /\ UNCHANGED <<solverVars, trajVars, mpVars>>

DerivNext == EvalDerivative

DerivSpec == DerivInit /\ [][DerivNext]_vars

\* the evaluation recorded is one at a speed below 1e-10 m/s
AtRest == evals # << >> /\ evals[1].state.vx = 0 /\ evals[1].state.vy = 0

\* C24: below a speed of 1e-10 the derivative of projectile_distance2/3 is
\* exactly (0, 0, 0, -g), with g the local gravity at max(y, 0) when the
\* altitude model is enabled in projectile_distance3 and the caller's gravity
\* otherwise, and neither the Reynolds number nor the drag model is evaluated.
C24_DerivativeAtRest ==
    AtRest =>
       LET c == evals[1].call
           y == evals[1].state.y
           g == IF c.fn = PD3 /\ c.altitude_model
                THEN gravity_at_altitude(IF y < 0 THEN 0 ELSE y)
                ELSE c.gravity
       IN  /\ evals[1].out.d = <<0, 0, 0, -g>>
           /\ evals[1].out.queried
                 \cap {"calculate_reynolds_number", "drag_coefficient_shape",
                       "drag_coeff", "air_density", "get_air_density_isa", "exp"} = {}

\* an evaluation at rest below the ground inside projectile_distance3 with the
\* altitude model, where the local gravity is not the caller's
C24_Witness ==
    /\ AtRest
    /\ evals[1].call.fn = PD3
    /\ evals[1].call.altitude_model
    /\ evals[1].state.y < 0
    /\ evals[1].out.d[4] = -gravity_at_altitude(0)
    /\ evals[1].out.d[4] # -evals[1].call.gravity

\* the names of the atmosphere model
AtmosphereModel ==
    {"get_temperature_at_altitude", "get_air_density_isa", "get_dynamic_viscosity",
     "gravity_at_altitude"}

\* the derivative of projectile_distance3 for a given air density, viscosity
\* and gravity
derivative_in(c, s, rho, mu, g) ==
    IF s.vx = 0 /\ s.vy = 0 THEN <<0, 0, 0, -g>>
    ELSE accelerations(c, s, rho,
            cd_e4(drag_coefficient_shape(c.shape,
                     calculate_reynolds_number(hypot(s.vx, s.vy),
                                               characteristic_length(c), rho, mu))),
            g)

\* C25: with the altitude model disabled every derivative evaluation of
\* projectile_distance3 uses only the caller's air_density and gravity, with
\* the viscosity 1.81e-5, and never queries the atmosphere model; with it
\* enabled the density, viscosity and gravity come only from the atmosphere
\* model at max(y, 0).
C25_EnvironmentSource ==
    (evals # << >> /\ evals[1].call.fn = PD3) =>
       LET c == evals[1].call
           s == evals[1].state
           h == IF s.y < 0 THEN 0 ELSE s.y
           out == evals[1].out
       IN  IF c.altitude_model
           THEN /\ out.queried \cap {"air_density", "gravity"} = {}
                /\ out.d = derivative_in(c, s, get_air_density_isa(h),
                               get_dynamic_viscosity(get_temperature_at_altitude(h)),
                               gravity_at_altitude(h))
           ELSE /\ out.queried \cap AtmosphereModel = {}
                /\ out.d = derivative_in(c, s, c.air_density, mu_default, c.gravity)

\* an evaluation in flight with the altitude model, whose drag and gravity
\* are not those of the caller's density and gravity
C25_Witness ==
    /\ evals # << >>
    /\ evals[1].call.fn = PD3
    /\ evals[1].call.altitude_model
    /\ evals[1].state.y > 0
    /\ evals[1].state.vx > 0
    /\ evals[1].out.d[3] < 0
    /\ evals[1].out.d # derivative_in(evals[1].call, evals[1].state,
                                      evals[1].call.air_density, mu_default,
                                      evals[1].call.gravity)
    /\ "get_air_density_isa" \in evals[1].out.queried

-----------------------------------------------------------------------------
(***************************************************************************)
(* Properties of the arguments projectile_distance3 takes besides the      *)
(* launch.                                                                 *)
(***************************************************************************)

\* C26: asking projectile_distance3 for the sampled trajectory does not change
\* the result: the call makes exactly one integration and, for every
\* n_points, returns the distance the same call returns with
\* return_trajectory=False.
C26_TrajectoryKeepsDistance ==
    (call.fn = PD3 /\ call.return_trajectory /\ Integrated)
       => /\ tpc = "returned"
          /\ work.solver_calls = 1
          /\ result.distance = pd_result(call, sol).distance

\* the same for the calls that ask for one sample at least
C26_SampledKeepsDistance ==
    (call.fn = PD3 /\ call.return_trajectory /\ Integrated /\ call.n_points >= 1)
       => /\ tpc = "returned"
          /\ work.solver_calls = 1
          /\ result.distance = pd_result(call, sol).distance

====
